---- MODULE Spec2Model ----
(***************************************************************************)
(* Model of the data pipeline under data-pipeline/scripts.                 *)
(*                                                                         *)
(* Spec      generate_heatmap_data_backup.py, process_heatmap_data: the    *)
(*           long-format heat-map generator, one CSV row per replicate     *)
(*           measurement.  The pipeline is a straight-line batch           *)
(*           transform; every stage of the function is one action and the  *)
(*           program counter pc records the stage reached.                 *)
(* SpecIC50  process_k562_data_v2.py, estimate_ic50: one call on a list    *)
(*           of doses and a list of responses.                             *)
(* SpecK562  process_k562_data_v2.py, process_k562_data_v2: one action     *)
(*           per variant group of the loop that builds the records.        *)
(* SpecIndex build_search_index.py, main: the CSV pass, the fall-back to   *)
(*           the variant files, the default drugs and the save.            *)
(*                                                                         *)
(* Each program has its own variables; a specification runs one program    *)
(* and leaves the variables of the others at their initial values.         *)
(*                                                                         *)
(* Numbers.  Responses are exact rationals [k |-> "num", n, d] (n/d in     *)
(* lowest terms, d > 0), in units of 0.01.  A pandas NaN is                *)
(* [k |-> "nan"], Python's None is [k |-> "none"], and the square root of  *)
(* a rational that has no rational root is the surd [k |-> "sqrt", n, d].  *)
(* Strings that pandas reads as missing are the string NaN.                *)
(*                                                                         *)
(* Python dicts keep insertion order: a dict is [keys |-> sequence of      *)
(* keys in insertion order, map |-> function from the keys].               *)
(***************************************************************************)
EXTENDS Integers, Sequences, FiniteSets, TLC

\* ------------------------------------------------------------------ bounds
MaxRows == 2      \* rows of the input CSV
MaxPos  == 3      \* the second protein position of the inputs (the first is 1)
MaxPoints == 3    \* dose points of one estimate_ic50 call
MaxFiles == 2     \* variant files in a gene directory

\* ------------------------------------------------------------ arithmetic
Abs(x) == IF x < 0 THEN -x ELSE x

RECURSIVE GCD(_, _)
GCD(a, b) == IF b = 0 THEN a ELSE GCD(b, a % b)

\* the rational n/d (d # 0) in lowest terms with a positive denominator
Frac(n, d) ==
    LET g == GCD(Abs(n), Abs(d))
        s == IF d < 0 THEN -1 ELSE 1
    IN  [k |-> "num", n |-> (s * n) \div g, d |-> (s * d) \div g]

Num(i)   == [k |-> "num", n |-> i, d |-> 1]
NaNv     == [k |-> "nan", n |-> 0, d |-> 1]
None     == [k |-> "none", n |-> 0, d |-> 1]
NaN      == "NaN"
NoneStr  == "None"

IsNum(x) == x.k = "num"
isna(x)  == x.k = "nan"

FAdd(a, b) == Frac(a.n * b.d + b.n * a.d, a.d * b.d)
FSub(a, b) == Frac(a.n * b.d - b.n * a.d, a.d * b.d)
FMul(a, b) == Frac(a.n * b.n, a.d * b.d)
FDivInt(a, i) == Frac(a.n, a.d * i)
FLess(a, b) == a.n * b.d < b.n * a.d

IsSquare(i) == \E r \in 0..i : r * r = i
Root(i)     == CHOOSE r \in 0..i : r * r = i

\* principal square root of a non-negative rational
Sqrt(f) ==
    IF IsSquare(f.n) /\ IsSquare(f.d)
    THEN Frac(Root(f.n), Root(f.d))
    ELSE [k |-> "sqrt", n |-> f.n, d |-> f.d]

RECURSIVE FSum(_)
FSum(s) == IF s = <<>> THEN Num(0) ELSE FAdd(Head(s), FSum(Tail(s)))

SquaredDev(s, m) == [i \in 1..Len(s) |-> FMul(FSub(s[i], m), FSub(s[i], m))]

\* ---------------------------------------------------------- Python dicts
EmptyDict == [keys |-> <<>>, map |-> <<>>]
DictKeys(dct) == DOMAIN dct.map
DictHas(dct, key) == key \in DictKeys(dct)
DictGet(dct, key) == dct.map[key]
DictSet(dct, key, val) ==
    IF DictHas(dct, key)
    THEN [dct EXCEPT !.map[key] = val]
    ELSE [keys |-> Append(dct.keys, key), map |-> (key :> val) @@ dct.map]

\* Python string comparison on the strings the pipeline handles: code-point
\* order ('*' < digits < upper case < lower case), longer wins on a common prefix
AsciiOrder ==
    << "*", "A", "ABL1", "C", "Dasatinib", "E255K", "I", "Imatinib", "M", "T",
       "T315I", "X", "high", "low", "medium" >>
StrRank(s) == CHOOSE i \in 1..Len(AsciiOrder) : AsciiOrder[i] = s

RECURSIVE LexLess(_, _)
LexLess(a, b) ==
    IF a = <<>> \/ b = <<>> THEN a = <<>> /\ b # <<>>
    ELSE IF Head(a) # Head(b) THEN Head(a) < Head(b)
    ELSE LexLess(Tail(a), Tail(b))

\* ------------------------------------------------------------ the inputs
Concentrations == {5, 30, 100, 17}
Responses      == {Num(-2), Num(-4), NaNv}
Base ==
    [species |-> "T315I", protein_start |-> 1, alt_aa |-> "I", ref_aa |-> "T",
     conc |-> 5, Gene |-> "ABL1", Drug |-> "Imatinib", netgr_obs |-> Num(-2)]

\* the rows a CSV file of the screen may hold: the base measurement varied in
\* response at the low and the medium dose, in dose (mapped and unmapped), in
\* position, in variant name and drug, in the reference amino acid (another
\* one, missing, or written as the unknown amino acid X) and in the
\* alternate amino acid (another one, or the non-canonical stop)
Measurements ==
    {[Base EXCEPT !.conc = c, !.netgr_obs = v] : c \in {5, 30}, v \in Responses}
    \cup {[Base EXCEPT !.conc = c] : c \in Concentrations}
    \cup {[Base EXCEPT !.species = "E255K", !.protein_start = MaxPos, !.conc = c, !.alt_aa = a] :
             c \in {5, 17}, a \in {"I", "*"}}
    \cup {[Base EXCEPT !.species = s, !.Drug = d] :
             s \in {"T315I", "E255K"}, d \in {"Imatinib", "Dasatinib"}}
    \cup {[Base EXCEPT !.ref_aa = r] : r \in {"M", NaN, "X"}}
    \cup {[Base EXCEPT !.alt_aa = a] : a \in {"A", "*"}}

RECURSIVE SeqsUpTo(_, _)
SeqsUpTo(S, n) ==
    IF n = 0 THEN {<<>>}
    ELSE LET shorter == SeqsUpTo(S, n - 1)
         IN  shorter \cup {Append(q, x) : q \in {t \in shorter : Len(t) = n - 1}, x \in S}

\* ------------------------------------------------------------- the state
VARIABLES
    pc,                 \* the stage of process_heatmap_data reached
    df,                 \* the rows read from the CSV file, in file order
    df_canonical,       \* the rows kept by the canonical filter (then with dose_level)
    grouped_stats,      \* the rows of the groupby/agg frame, in its order
    min_position, max_position, all_positions,
    position_aa_matrix, \* dict position_str -> dict aa -> entry
    variant_lookup,     \* dict "<position>_<aa>" -> lookup entry
    value_range,        \* the value lists and their min/max
    heatmap_data        \* the returned document

vars == << pc, df, df_canonical, grouped_stats, min_position, max_position,
           all_positions, position_aa_matrix, variant_lookup, value_range,
           heatmap_data >>

\* the state of one call of estimate_ic50 (process_k562_data_v2.py)
VARIABLES
    ic50_pc,            \* "idle", "called" or "returned"
    ic50_call,          \* the arguments: [doses, responses]
    ic50_result      \* the value returned

ic50_vars == << ic50_pc, ic50_call, ic50_result >>

IC50Idle ==
    /\ ic50_pc = "idle"
    /\ ic50_call = [doses |-> <<>>, responses |-> <<>>]
    /\ ic50_result = None

\* the state of one run of process_k562_data_v2 (process_k562_data_v2.py)
VARIABLES
    k562_pc,            \* "idle", "start", "grouped" or "returned"
    k562_df,            \* the rows read from the CSV file, in file order
    variant_groups,     \* the group keys the loop has still to visit
    variants,           \* dict variant_key -> variant entry
    processed_count

k562_vars == << k562_pc, k562_df, variant_groups, variants, processed_count >>

K562Idle ==
    /\ k562_pc = "idle"
    /\ k562_df = <<>>
    /\ variant_groups = <<>>
    /\ variants = EmptyDict
    /\ processed_count = 0

\* the state of one run of main() of build_search_index.py
VARIABLES
    index_pc,           \* "idle", "start", "csv_done", "sourced", "defaulted", "saved"
    csv_file,           \* the CSV file: missing, unreadable, or a table
    variants_dir,       \* the variants directory: missing, or its gene directories
    genes, drugs,       \* dicts name -> entry
    index_variants,     \* the list 'variants'
    index_log,          \* the messages of the two fallback branches
    search_index        \* the document written

index_vars == << index_pc, csv_file, variants_dir, genes, drugs, index_variants,
                 index_log, search_index >>

IndexIdle ==
    /\ index_pc = "idle"
    /\ csv_file = [state |-> "missing", columns |-> {}, rows |-> <<>>]
    /\ variants_dir = [exists |-> FALSE, dirs |-> <<>>]
    /\ genes = EmptyDict
    /\ drugs = EmptyDict
    /\ index_variants = <<>>
    /\ index_log = <<>>
    /\ search_index = NoneStr

\* what process_heatmap_data leaves alone, and its state while it is not run
elsewhere == << ic50_vars, k562_vars, index_vars >>
ElsewhereIdle == IC50Idle /\ K562Idle /\ IndexIdle

HeatmapIdle ==
    /\ pc = "start"
    /\ df = <<>>
    /\ df_canonical = <<>>
    /\ grouped_stats = <<>>
    /\ min_position = 0
    /\ max_position = 0
    /\ all_positions = <<>>
    /\ position_aa_matrix = EmptyDict
    /\ variant_lookup = EmptyDict
    /\ value_range = NoneStr
    /\ heatmap_data = NoneStr

Init == HeatmapIdle /\ ElsewhereIdle

\* ------------------------------------------------------------ the stages
get_canonical_amino_acids ==
    << "A", "C", "D", "E", "F", "G", "H", "I", "K", "L",
       "M", "N", "P", "Q", "R", "S", "T", "V", "W", "Y" >>
canonical_aa == get_canonical_amino_acids
Range(s) == {s[i] : i \in 1..Len(s)}

\* df = pd.read_csv(csv_path)
read_csv ==
    /\ pc = "start"
    /\ UNCHANGED elsewhere
    /\ \E rows \in SeqsUpTo(Measurements, MaxRows) : df' = rows
    /\ pc' = "loaded"
    /\ UNCHANGED << df_canonical, grouped_stats, min_position, max_position,
                    all_positions, position_aa_matrix, variant_lookup, value_range,
                    heatmap_data >>

\* (variant) a filter that keeps every row
isin_anything(row) == TRUE

\* df[df['alt_aa'].isin(canonical_aa)]
isin_canonical(row) == row.alt_aa \in Range(canonical_aa)

filter_canonical ==
    /\ pc = "loaded"
    /\ UNCHANGED elsewhere
    /\ df_canonical' = SelectSeq(df, isin_canonical)
    /\ pc' = "filtered"
    /\ UNCHANGED << df, grouped_stats, min_position, max_position, all_positions,
                    position_aa_matrix, variant_lookup, value_range, heatmap_data >>

\* (variant) a mapping that files every other concentration under 'low'
dose_mapping_default_low(conc) ==
    CASE conc = 30  -> "medium"
      [] conc = 100 -> "high"
      [] OTHER      -> "low"

\* dose_mapping = {5: 'low', 30: 'medium', 100: 'high'}; Series.map gives NaN elsewhere
dose_mapping(conc) ==
    CASE conc = 5   -> "low"
      [] conc = 30  -> "medium"
      [] conc = 100 -> "high"
      [] OTHER      -> NaN

WithDose(row) ==
    [species |-> row.species, protein_start |-> row.protein_start,
     alt_aa |-> row.alt_aa, ref_aa |-> row.ref_aa, conc |-> row.conc,
     Gene |-> row.Gene, Drug |-> row.Drug, netgr_obs |-> row.netgr_obs,
     dose_level |-> dose_mapping(row.conc)]

map_dose_level ==
    /\ pc = "filtered"
    /\ UNCHANGED elsewhere
    /\ df_canonical' = [i \in 1..Len(df_canonical) |-> WithDose(df_canonical[i])]
    /\ pc' = "mapped"
    /\ UNCHANGED << df, grouped_stats, min_position, max_position, all_positions,
                    position_aa_matrix, variant_lookup, value_range, heatmap_data >>

\* ---- groupby([...])['netgr_obs'].agg(['mean', 'std', 'count']).reset_index()
GroupKey(row) ==
    [species |-> row.species, protein_start |-> row.protein_start,
     alt_aa |-> row.alt_aa, ref_aa |-> row.ref_aa, dose_level |-> row.dose_level,
     Gene |-> row.Gene, Drug |-> row.Drug]

\* groupby drops (dropna=True) every row that has a missing value in a key column
HasKey(row) ==
    /\ row.species # NaN /\ row.alt_aa # NaN /\ row.ref_aa # NaN
    /\ row.dose_level # NaN /\ row.Gene # NaN /\ row.Drug # NaN

\* groupby sorts the groups by the key columns, in the order they are listed
KeyRank(key) ==
    << StrRank(key.species), key.protein_start, StrRank(key.alt_aa),
       StrRank(key.ref_aa), StrRank(key.dose_level), StrRank(key.Gene),
       StrRank(key.Drug) >>

RECURSIVE SortKeys(_)
SortKeys(S) ==
    IF S = {} THEN <<>>
    ELSE LET first == CHOOSE x \in S : \A y \in S \ {x} : LexLess(KeyRank(x), KeyRank(y))
         IN  <<first>> \o SortKeys(S \ {first})

\* (variant) only the response of the first row of the group ('first')
InGroupFirst(rows, key) ==
    LET member(row) == HasKey(row) /\ GroupKey(row) = key
        kept == SelectSeq(rows, member)
    IN  <<kept[1].netgr_obs>>

\* the responses of the rows of one group, in row order
InGroup(rows, key) ==
    LET member(row) == HasKey(row) /\ GroupKey(row) = key
        kept == SelectSeq(rows, member)
    IN  [i \in 1..Len(kept) |-> kept[i].netgr_obs]

\* (variant) 'size': the number of rows, missing values included
AggSize(values) == Len(values)

\* 'count': the number of non-missing values
AggCount(values) == Len(SelectSeq(values, IsNum))

\* (variant) a mean that takes a missing value for 0
AggMeanZeroFilled(values) ==
    LET present == SelectSeq(values, IsNum)
    IN  IF present = <<>> THEN NaNv ELSE FDivInt(FSum(present), Len(values))

\* 'mean': the mean of the non-missing values, NaN when there is none
AggMean(values) ==
    LET present == SelectSeq(values, IsNum)
    IN  IF present = <<>> THEN NaNv ELSE FDivInt(FSum(present), Len(present))

\* (variant) the population standard deviation (ddof = 0)
AggStdPopulation(values) ==
    LET present == SelectSeq(values, IsNum)
        n == Len(present)
    IN  IF n < 2 THEN NaNv
        ELSE Sqrt(FDivInt(FSum(SquaredDev(present, FDivInt(FSum(present), n))), n))

\* 'std': the standard deviation of the non-missing values with ddof = 1,
\* NaN when fewer than two are present
AggStd(values) ==
    LET present == SelectSeq(values, IsNum)
        n == Len(present)
    IN  IF n < 2 THEN NaNv
        ELSE Sqrt(FDivInt(FSum(SquaredDev(present, AggMean(values))), n - 1))

groupby_agg(rows) ==
    LET keys == SortKeys({GroupKey(rows[i]) : i \in {j \in 1..Len(rows) : HasKey(rows[j])}})
        stat(key) ==
            LET values == InGroup(rows, key)
            IN  [species |-> key.species, protein_start |-> key.protein_start,
                 alt_aa |-> key.alt_aa, ref_aa |-> key.ref_aa,
                 dose_level |-> key.dose_level, Gene |-> key.Gene, Drug |-> key.Drug,
                 mean |-> AggMean(values), std |-> AggStd(values),
                 count |-> AggCount(values)]
    IN  [i \in 1..Len(keys) |-> stat(keys[i])]

group_measurements ==
    /\ pc = "mapped"
    /\ UNCHANGED elsewhere
    /\ grouped_stats' = groupby_agg(df_canonical)
    /\ pc' = "grouped"
    /\ UNCHANGED << df, df_canonical, min_position, max_position, all_positions,
                    position_aa_matrix, variant_lookup, value_range, heatmap_data >>

\* ---- the position range (lines 59-62)
SetMin(S) == CHOOSE x \in S : \A y \in S : x <= y
SetMax(S) == CHOOSE x \in S : \A y \in S : x >= y

RECURSIVE sorted(_)
sorted(S) == IF S = {} THEN <<>> ELSE <<SetMin(S)>> \o sorted(S \ {SetMin(S)})

\* (variant) only the position of the first group
leading_position(stats) == {stats[1].protein_start}

unique_positions(stats) == {stats[i].protein_start : i \in 1..Len(stats)}

\* (variant) every integer from the least to the greatest position
position_span(stats) ==
    sorted(SetMin(unique_positions(stats))..SetMax(unique_positions(stats)))

\* all_positions = sorted(grouped_stats['protein_start'].unique())
observed_positions(stats) == sorted(unique_positions(stats))

\* int(grouped_stats['protein_start'].min()) raises ValueError on an empty frame
\* (the minimum of no value is NaN), and main() re-raises it
position_range ==
    /\ pc = "grouped"
    /\ UNCHANGED elsewhere
    /\ IF grouped_stats = <<>>
       THEN /\ pc' = "raised"
            /\ UNCHANGED << min_position, max_position, all_positions >>
       ELSE /\ min_position' = SetMin(unique_positions(grouped_stats))
            /\ max_position' = SetMax(unique_positions(grouped_stats))
            /\ all_positions' = observed_positions(grouped_stats)
            /\ pc' = "ranged"
    /\ UNCHANGED << df, df_canonical, grouped_stats, position_aa_matrix,
                    variant_lookup, value_range, heatmap_data >>

\* ---- the pivot loop (lines 72-100)
str(position) == ToString(position)
int(position_str) == CHOOSE p \in {1, MaxPos} \cup 1..(MaxPos + 1) : str(p) = position_str

NullCell == [value |-> None, std |-> None, count |-> 0]

NewEntry(ref_aa) ==
    [low |-> NullCell, medium |-> NullCell, high |-> NullCell, ref_aa |-> ref_aa]

\* std_value = float(row['std']) if not pd.isna(row['std']) else 0
std_value(row) == IF ~isna(row.std) THEN row.std ELSE Num(0)

StatCell(row) == [value |-> row.mean, std |-> std_value(row), count |-> row.count]

\* ref_aa if ref_aa else 'X'
ref_or_unknown(ref_aa) == IF ref_aa # "" THEN ref_aa ELSE "X"

\* (variant) an iteration that starts a fresh entry for every row
PivotRowFreshEntry(matrix, row) ==
    LET position_str == str(row.protein_start)
        m1 == IF ~DictHas(matrix, position_str)
              THEN DictSet(matrix, position_str, EmptyDict) ELSE matrix
        aa_data == DictGet(m1, position_str)
        stored == [NewEntry(row.ref_aa) EXCEPT ![row.dose_level] = StatCell(row),
                                               !.ref_aa = ref_or_unknown(row.ref_aa)]
    IN  DictSet(m1, position_str, DictSet(aa_data, row.alt_aa, stored))

\* one iteration of the loop over grouped_stats.iterrows()
PivotRow(matrix, row) ==
    LET position_str == str(row.protein_start)
        m1 == IF ~DictHas(matrix, position_str)
              THEN DictSet(matrix, position_str, EmptyDict) ELSE matrix
        aa_data == DictGet(m1, position_str)
        a1 == IF ~DictHas(aa_data, row.alt_aa)
              THEN DictSet(aa_data, row.alt_aa, NewEntry(row.ref_aa)) ELSE aa_data
        entry == DictGet(a1, row.alt_aa)
        stored == [entry EXCEPT ![row.dose_level] = StatCell(row),
                                !.ref_aa = ref_or_unknown(row.ref_aa)]
    IN  DictSet(m1, position_str, DictSet(a1, row.alt_aa, stored))

RECURSIVE PivotFrom(_, _, _)
PivotFrom(matrix, stats, i) ==
    IF i > Len(stats) THEN matrix
    ELSE PivotFrom(PivotRow(matrix, stats[i]), stats, i + 1)

pivot ==
    /\ pc = "ranged"
    /\ UNCHANGED elsewhere
    /\ position_aa_matrix' = PivotFrom(position_aa_matrix, grouped_stats, 1)
    /\ pc' = "pivoted"
    /\ UNCHANGED << df, df_canonical, grouped_stats, min_position, max_position,
                    all_positions, variant_lookup, value_range, heatmap_data >>

\* ---- the variant lookup loop (lines 102-118)
\* the (position_str, aa) pairs of the matrix in the order .items() yields them
RECURSIVE ItemsFrom(_, _)
ItemsFrom(matrix, i) ==
    IF i > Len(matrix.keys) THEN <<>>
    ELSE LET position_str == matrix.keys[i]
             aa_data == DictGet(matrix, position_str)
         IN  [j \in 1..Len(aa_data.keys) |-> <<position_str, aa_data.keys[j]>>]
             \o ItemsFrom(matrix, i + 1)
Items(matrix) == ItemsFrom(matrix, 1)

EntryAt(matrix, position_str, aa) == DictGet(DictGet(matrix, position_str), aa)

\* (variant) a test that also takes the unknown reference 'X' for no data
TruthyAndKnown(ref_aa) == ref_aa # NoneStr /\ ref_aa # "" /\ ref_aa # "X"

\* the truth value of dose_data.get('ref_aa')
Truthy(ref_aa) == ref_aa # NoneStr /\ ref_aa # ""

lookup_key(position, aa) == str(position) \o "_" \o aa

\* (variant) an entry that reports the count of the medium dose
LookupEntryMediumCount(position, aa, dose_data) ==
    LET ref_aa_val == IF dose_data.ref_aa # "X" THEN dose_data.ref_aa ELSE "?"
    IN  [id |-> ref_aa_val \o str(position) \o aa,
         position |-> position,
         ref_aa |-> dose_data.ref_aa,
         alt_aa |-> aa,
         low_value |-> dose_data.low.value,
         medium_value |-> dose_data.medium.value,
         high_value |-> dose_data.high.value,
         count |-> IF dose_data.medium.value # None THEN dose_data.medium.count ELSE 0]

LookupEntry(position, aa, dose_data) ==
    LET ref_aa_val == IF dose_data.ref_aa # "X" THEN dose_data.ref_aa ELSE "?"
    IN  [id |-> ref_aa_val \o str(position) \o aa,
         position |-> position,
         ref_aa |-> dose_data.ref_aa,
         alt_aa |-> aa,
         low_value |-> dose_data.low.value,
         medium_value |-> dose_data.medium.value,
         high_value |-> dose_data.high.value,
         count |-> IF dose_data.low.value # None THEN dose_data.low.count ELSE 0]

RECURSIVE LookupFrom(_, _, _, _)
LookupFrom(lookup, matrix, items, i) ==
    IF i > Len(items) THEN lookup
    ELSE LET position == int(items[i][1])
             aa == items[i][2]
             dose_data == EntryAt(matrix, items[i][1], aa)
             next == IF aa # "ref_aa" /\ Truthy(dose_data.ref_aa)
                     THEN DictSet(lookup, lookup_key(position, aa),
                                  LookupEntry(position, aa, dose_data))
                     ELSE lookup
         IN  LookupFrom(next, matrix, items, i + 1)

create_variant_lookup ==
    /\ pc = "pivoted"
    /\ UNCHANGED elsewhere
    /\ variant_lookup' = LookupFrom(variant_lookup, position_aa_matrix,
                                    Items(position_aa_matrix), 1)
    /\ pc' = "indexed"
    /\ UNCHANGED << df, df_canonical, grouped_stats, min_position, max_position,
                    all_positions, position_aa_matrix, value_range, heatmap_data >>

\* ---- fill in missing combinations with null values (lines 120-132)
\* (variant) a fill that adds no amino acid
FillNoAminoAcid(aa_data, i) == aa_data

RECURSIVE FillAminoAcids(_, _)
FillAminoAcids(aa_data, i) ==
    IF i > Len(canonical_aa) THEN aa_data
    ELSE FillAminoAcids(IF ~DictHas(aa_data, canonical_aa[i])
                        THEN DictSet(aa_data, canonical_aa[i], NewEntry(NoneStr))
                        ELSE aa_data,
                        i + 1)

\* (variant) a fill that starts every position from an empty dict
FillPositionFresh(matrix, position) ==
    DictSet(matrix, str(position), FillAminoAcids(EmptyDict, 1))

FillPosition(matrix, position) ==
    LET position_str == str(position)
        m1 == IF ~DictHas(matrix, position_str)
              THEN DictSet(matrix, position_str, EmptyDict) ELSE matrix
    IN  DictSet(m1, position_str, FillAminoAcids(DictGet(m1, position_str), 1))

RECURSIVE FillFrom(_, _, _)
FillFrom(matrix, positions, i) ==
    IF i > Len(positions) THEN matrix
    ELSE FillFrom(FillPosition(matrix, positions[i]), positions, i + 1)

fill_missing ==
    /\ pc = "indexed"
    /\ UNCHANGED elsewhere
    /\ position_aa_matrix' = FillFrom(position_aa_matrix, all_positions, 1)
    /\ pc' = "filled"
    /\ UNCHANGED << df, df_canonical, grouped_stats, min_position, max_position,
                    all_positions, variant_lookup, value_range, heatmap_data >>

\* ---- the value ranges (lines 133-149)
\* Python's min() and max(): keep the first element, replace it by a later one
\* that compares smaller (greater); every comparison with NaN is false
PyLess(a, b) == IsNum(a) /\ IsNum(b) /\ FLess(a, b)

RECURSIVE MinFrom(_, _, _)
MinFrom(best, values, i) ==
    IF i > Len(values) THEN best
    ELSE MinFrom(IF PyLess(values[i], best) THEN values[i] ELSE best, values, i + 1)
min(values) == MinFrom(values[1], values, 2)

RECURSIVE MaxFrom(_, _, _)
MaxFrom(best, values, i) ==
    IF i > Len(values) THEN best
    ELSE MaxFrom(IF PyLess(best, values[i]) THEN values[i] ELSE best, values, i + 1)
max(values) == MaxFrom(values[1], values, 2)

\* the values of one dose level that are not None, in iteration order
all_values(matrix, dose_level) ==
    LET items == Items(matrix)
        value(i) == EntryAt(matrix, items[i][1], items[i][2])[dose_level].value
        NotNone(i) == value(i) # None
        kept == SelectSeq([i \in 1..Len(items) |-> i], NotNone)
    IN  [i \in 1..Len(kept) |-> value(kept[i])]

\* (variant) an empty list reported as (0, 0)
MaxOrZero(values, default) == IF values # <<>> THEN max(values) ELSE Num(0)

MinOr(values, default) == IF values # <<>> THEN min(values) ELSE Num(default)
MaxOr(values, default) == IF values # <<>> THEN max(values) ELSE Num(default)

ComputeRanges(matrix) ==
    LET all_values_low == all_values(matrix, "low")
        all_values_medium == all_values(matrix, "medium")
        all_values_high == all_values(matrix, "high")
        all_values_combined == all_values_low \o all_values_medium \o all_values_high
    IN  [min |-> MinOr(all_values_combined, 0),
         max |-> MaxOr(all_values_combined, 1),
         low |-> [min |-> MinOr(all_values_low, 0), max |-> MaxOr(all_values_low, 1)],
         medium |-> [min |-> MinOr(all_values_medium, 0),
                     max |-> MaxOr(all_values_medium, 1)],
         high |-> [min |-> MinOr(all_values_high, 0), max |-> MaxOr(all_values_high, 1)]]

compute_value_ranges ==
    /\ pc = "filled"
    /\ UNCHANGED elsewhere
    /\ value_range' = ComputeRanges(position_aa_matrix)
    /\ pc' = "scaled"
    /\ UNCHANGED << df, df_canonical, grouped_stats, min_position, max_position,
                    all_positions, position_aa_matrix, variant_lookup, heatmap_data >>

\* ---- the returned document (lines 151-217)
\* len(grouped_stats.groupby(['protein_start', 'alt_aa']))
\* (variant) the number of groups
total_groups(stats) == Len(stats)

total_variants(stats) ==
    Cardinality({<<stats[i].protein_start, stats[i].alt_aa>> : i \in 1..Len(stats)})

build_heatmap_data ==
    /\ pc = "scaled"
    /\ UNCHANGED elsewhere
    /\ heatmap_data' =
         [metadata |->
            [type |-> "position_vs_amino_acid",
             total_variants |-> total_variants(grouped_stats),
             position_range |-> [min |-> min_position, max |-> max_position,
                                 positions_with_data |-> Len(all_positions)],
             amino_acids |-> canonical_aa,
             amino_acids_count |-> Len(canonical_aa),
             gene |-> IF Len(grouped_stats) > 0 THEN grouped_stats[1].Gene ELSE NoneStr,
             drug |-> IF Len(grouped_stats) > 0 THEN grouped_stats[1].Drug ELSE NoneStr,
             value_range |-> value_range,
             dose_levels |-> <<"low", "medium", "high">>],
          matrix |-> position_aa_matrix,
          positions |-> all_positions,
          variant_lookup |-> variant_lookup]
    /\ pc' = "done"
    /\ UNCHANGED << df, df_canonical, grouped_stats, min_position, max_position,
                    all_positions, position_aa_matrix, variant_lookup, value_range >>

\* ---- the stages composed: what process_heatmap_data computes from the rows
\* grouped_stats (lines 47-55)
Aggregate(rows) ==
    LET kept == SelectSeq(rows, isin_canonical)
    IN  groupby_agg([i \in 1..Len(kept) |-> WithDose(kept[i])])

\* position_aa_matrix after the fill loop (lines 47-132)
MatrixFor(rows) ==
    LET stats == Aggregate(rows)
    IN  FillFrom(PivotFrom(EmptyDict, stats, 1), observed_positions(stats), 1)

\* variant_lookup (lines 47-118)
LookupFor(rows) ==
    LET matrix == PivotFrom(EmptyDict, Aggregate(rows), 1)
    IN  LookupFrom(EmptyDict, matrix, Items(matrix), 1)

Next == read_csv \/ filter_canonical \/ map_dose_level \/ group_measurements
        \/ position_range \/ pivot \/ create_variant_lookup \/ fill_missing
        \/ compute_value_ranges \/ build_heatmap_data
Spec == Init /\ [][Next]_<< vars, elsewhere >>

\* =====================================================================
\* estimate_ic50 (process_k562_data_v2.py, lines 21-55; the same code in
\* process_k562_data.py).  Doses and responses are exact rationals.
DoseValues     == {Num(-1), Num(0), Num(1), Num(3)}
ResponseValues == {Num(-2), Num(1), Num(2), Num(4)}

\* the calls: as many responses as doses, up to MaxPoints of them
Calls ==
    {[doses |-> [i \in 1..Len(q) |-> q[i][1]], responses |-> [i \in 1..Len(q) |-> q[i][2]]] :
       q \in SeqsUpTo(DoseValues \X ResponseValues, MaxPoints)}

FDiv(a, b) == Frac(a.n * b.d, a.d * b.n)
GreaterEq(a, b) == IsNum(a) /\ IsNum(b) /\ ~FLess(a, b)

zip(a, b) ==
    [i \in 1..(IF Len(a) < Len(b) THEN Len(a) ELSE Len(b)) |-> <<a[i], b[i]>>]

\* the order of Python tuples: by dose, then by response
TupleLess(a, b) == PyLess(a[1], b[1]) \/ (a[1] = b[1] /\ PyLess(a[2], b[2]))

RECURSIVE InsertSorted(_, _)
InsertSorted(s, x) ==
    IF s = <<>> THEN <<x>>
    ELSE IF TupleLess(x, Head(s)) THEN <<x>> \o s
    ELSE <<Head(s)>> \o InsertSorted(Tail(s), x)

RECURSIVE SortFrom(_, _, _)
SortFrom(done, pairs, i) ==
    IF i > Len(pairs) THEN done ELSE SortFrom(InsertSorted(done, pairs[i]), pairs, i + 1)

\* (variant) the pairs in the order they were given
unsorted_data(pairs) == pairs

\* sorted(zip(doses, responses)): a stable sort
sorted_data(pairs) == SortFrom(<<>>, pairs, 1)

\* the loop over range(len(responses_sorted) - 1), from iteration i on, and
\* the fall-through to the middle dose
RECURSIVE Interpolate(_, _, _, _)
Interpolate(doses_sorted, responses_sorted, target_response, i) ==
    IF i > Len(responses_sorted) - 1
    THEN doses_sorted[(Len(doses_sorted) \div 2) + 1]
    ELSE LET y1 == responses_sorted[i]
             y2 == responses_sorted[i + 1]
             x1 == doses_sorted[i]
             x2 == doses_sorted[i + 1]
         IN  IF \/ GreaterEq(y1, target_response) /\ GreaterEq(target_response, y2)
                \/ GreaterEq(y2, target_response) /\ GreaterEq(target_response, y1)
             THEN IF y2 # y1
                  THEN LET ic50 == FAdd(x1, FDiv(FMul(FSub(target_response, y1), FSub(x2, x1)),
                                                 FSub(y2, y1)))
                       IN  IF PyLess(Num(0), ic50) THEN ic50 ELSE Num(0)
                  ELSE x1
             ELSE Interpolate(doses_sorted, responses_sorted, target_response, i + 1)

estimate_ic50(doses, responses) ==
    IF Len(doses) < 2 \/ doses = <<>> THEN None
    ELSE LET max_response == max(responses)
             target_response == FDivInt(max_response, 2)
             pairs == sorted_data(zip(doses, responses))
             doses_sorted == [i \in 1..Len(pairs) |-> pairs[i][1]]
             responses_sorted == [i \in 1..Len(pairs) |-> pairs[i][2]]
         IN  Interpolate(doses_sorted, responses_sorted, target_response, 1)

call_estimate_ic50 ==
    /\ ic50_pc = "called"
    /\ ic50_result' = estimate_ic50(ic50_call.doses, ic50_call.responses)
    /\ ic50_pc' = "returned"
    /\ UNCHANGED << ic50_call, vars, k562_vars, index_vars >>

InitIC50 ==
    /\ HeatmapIdle /\ K562Idle /\ IndexIdle
    /\ ic50_pc = "called"
    /\ ic50_call \in Calls
    /\ ic50_result = None

NextIC50 == call_estimate_ic50
SpecIC50 == InitIC50 /\ [][NextIC50]_<< vars, elsewhere >>

\* =====================================================================
\* process_k562_data_v2 (process_k562_data_v2.py, lines 81-233): the rows of
\* one variant, screened against two drugs at two concentrations, with the
\* replicate numbers 1, 2 and 3.  Responses are exact rationals.
K562Rows ==
    {[Gene |-> "ABL1", ref_aa |-> "T", protein_start |-> 1, alt_aa |-> "I",
      Drug |-> d, conc |-> c, rep |-> r, netgr_obs |-> v] :
       d \in {"Imatinib", "Dasatinib"}, c \in {5, 30}, r \in {1, 2, 3},
       v \in {Num(-2), Num(-4)}}

\* df.groupby(['Gene', 'ref_aa', 'protein_start', 'alt_aa', 'Drug'])
VariantKey(row) == << row.Gene, row.ref_aa, row.protein_start, row.alt_aa, row.Drug >>

VariantKeyRank(key) ==
    << StrRank(key[1]), StrRank(key[2]), key[3], StrRank(key[4]), StrRank(key[5]) >>

RECURSIVE SortVariantKeys(_)
SortVariantKeys(S) ==
    IF S = {} THEN <<>>
    ELSE LET first == CHOOSE x \in S :
                        \A y \in S \ {x} : LexLess(VariantKeyRank(x), VariantKeyRank(y))
         IN  <<first>> \o SortVariantKeys(S \ {first})

groupby_variant(rows) == SortVariantKeys({VariantKey(rows[i]) : i \in 1..Len(rows)})

\* the rows of one group, in file order
GroupRows(rows, key) ==
    LET member(row) == VariantKey(row) = key
    IN  SelectSeq(rows, member)

\* the loop over group.iterrows() (lines 118-126)
RECURSIVE DoseDataFrom(_, _, _)
DoseDataFrom(dose_data, group, i) ==
    IF i > Len(group) THEN dose_data
    ELSE LET conc == Num(group[i].conc)
             d1 == IF ~DictHas(dose_data, conc)
                   THEN DictSet(dose_data, conc, EmptyDict) ELSE dose_data
         IN  DoseDataFrom(DictSet(d1, conc, DictSet(DictGet(d1, conc), group[i].rep,
                                                    group[i].netgr_obs)),
                          group, i + 1)

RECURSIVE SortedNums(_)
SortedNums(S) ==
    IF S = {} THEN <<>>
    ELSE LET least == CHOOSE x \in S : \A y \in S : ~FLess(y, x)
         IN  <<least>> \o SortedNums(S \ {least})

\* dose_data[conc].get(rep, None)
GetRep(rep_data, rep) == IF DictHas(rep_data, rep) THEN DictGet(rep_data, rep) ELSE None

NoPoints == [doses |-> <<>>, responses_rep1 |-> <<>>, responses_rep2 |-> <<>>]

\* (variant) an iteration that keeps the dose of a concentration without
\* replicate 1 and 2
AppendPointKeepDose(lists, conc, rep_data) ==
    LET appended == [lists EXCEPT !.doses = Append(@, conc)]
        rep1_val == GetRep(rep_data, 1)
        rep2_val == GetRep(rep_data, 2)
    IN  IF rep1_val # None /\ rep2_val # None
        THEN [appended EXCEPT !.responses_rep1 = Append(@, rep1_val),
                              !.responses_rep2 = Append(@, rep2_val)]
        ELSE IF rep1_val # None
        THEN [appended EXCEPT !.responses_rep1 = Append(@, rep1_val),
                              !.responses_rep2 = Append(@, rep1_val)]
        ELSE IF rep2_val # None
        THEN [appended EXCEPT !.responses_rep1 = Append(@, rep2_val),
                              !.responses_rep2 = Append(@, rep2_val)]
        ELSE appended

\* one iteration of the loop over sorted(dose_data.keys()) (lines 137-156)
AppendPoint(lists, conc, rep_data) ==
    LET appended == [lists EXCEPT !.doses = Append(@, conc)]
        rep1_val == GetRep(rep_data, 1)
        rep2_val == GetRep(rep_data, 2)
    IN  IF rep1_val # None /\ rep2_val # None
        THEN [appended EXCEPT !.responses_rep1 = Append(@, rep1_val),
                              !.responses_rep2 = Append(@, rep2_val)]
        ELSE IF rep1_val # None
        THEN [appended EXCEPT !.responses_rep1 = Append(@, rep1_val),
                              !.responses_rep2 = Append(@, rep1_val)]
        ELSE IF rep2_val # None
        THEN [appended EXCEPT !.responses_rep1 = Append(@, rep2_val),
                              !.responses_rep2 = Append(@, rep2_val)]
        ELSE [appended EXCEPT !.doses = SubSeq(@, 1, Len(@) - 1)]

RECURSIVE PointsFrom(_, _, _, _)
PointsFrom(lists, dose_data, concs, i) ==
    IF i > Len(concs) THEN lists
    ELSE PointsFrom(AppendPoint(lists, concs[i], DictGet(dose_data, concs[i])),
                    dose_data, concs, i + 1)

\* [(r1 + r2) / 2 for r1, r2 in zip(responses_rep1, responses_rep2)]
Averages(responses_rep1, responses_rep2) ==
    LET pairs == zip(responses_rep1, responses_rep2)
    IN  [i \in 1..Len(pairs) |-> FDivInt(FAdd(pairs[i][1], pairs[i][2]), 2)]

FAbs(a) == IF a.n < 0 THEN Frac(-a.n, a.d) ELSE a

get_qc_flags(responses_rep1, responses_rep2, ic50) ==
    LET pairs == zip(responses_rep1, responses_rep2)
    IN  (IF responses_rep1 = <<>> \/ responses_rep2 = <<>>
         THEN <<"insufficient_replicates">> ELSE <<>>)
        \o (IF /\ responses_rep1 # <<>> /\ responses_rep2 # <<>>
               /\ Len(responses_rep1) = Len(responses_rep2)
               /\ \E i \in 1..Len(pairs) :
                    FLess(Frac(1, 2), FAbs(FSub(pairs[i][1], pairs[i][2])))
            THEN <<"high_replicate_variation">> ELSE <<>>)
        \o (IF ic50 = None THEN <<"no_ic50_estimate">> ELSE <<>>)
        \o (IF /\ responses_rep1 # <<>>
               /\ \A i \in 1..Len(responses_rep1) : responses_rep1[i] = responses_rep1[1]
            THEN <<"flat_dose_response">> ELSE <<>>)

\* the entry of one drug in 'ic50_values' (lines 163-186)
IC50Entry(drug_name, group, lists) ==
    LET avg_responses == Averages(lists.responses_rep1, lists.responses_rep2)
        ic50_estimated == estimate_ic50(lists.doses, avg_responses)
    IN  [drug |-> drug_name,
         ic50 |-> IF ic50_estimated = None \/ ic50_estimated = Num(0)
                  THEN Num(0) ELSE ic50_estimated,
         replicate_count |-> Cardinality({group[i].rep : i \in 1..Len(group)}),
         dose_response_data |->
           [doses |-> lists.doses,
            responses_rep1 |-> lists.responses_rep1,
            responses_rep2 |-> lists.responses_rep2,
            avg_responses |-> avg_responses],
         qc_flags |-> get_qc_flags(lists.responses_rep1, lists.responses_rep2,
                                   ic50_estimated)]

\* the body of the loop over variant_groups for one group (lines 110-223):
\* the variants dict after it
StoreGroup(dict, key, group) ==
    LET variant_string == key[2] \o str(key[3]) \o key[4]
        variant_key == key[1] \o "_" \o variant_string
        dose_data == DoseDataFrom(EmptyDict, group, 1)
        lists == PointsFrom(NoPoints, dose_data, SortedNums(DictKeys(dose_data)), 1)
        entry == IC50Entry(key[5], group, lists)
    IN  IF lists.doses = <<>> THEN dict
        ELSE IF DictHas(dict, variant_key)
        THEN DictSet(dict, variant_key,
                     [DictGet(dict, variant_key) EXCEPT
                        !.drugs_tested = Append(@, key[5]),
                        !.ic50_values = Append(@, entry)])
        ELSE DictSet(dict, variant_key,
                     [gene |-> key[1],
                      variant_string |-> variant_string,
                      protein_change |-> "p." \o variant_string,
                      position |-> key[3],
                      drugs_tested |-> <<key[5]>>,
                      ic50_values |-> <<entry>>,
                      replicate_count |-> entry.replicate_count])

k562_read_csv ==
    /\ k562_pc = "start"
    /\ \E rows \in SeqsUpTo(K562Rows, MaxRows) :
         /\ k562_df' = rows
         /\ variant_groups' = groupby_variant(rows)
    /\ k562_pc' = "grouped"
    /\ UNCHANGED << variants, processed_count, vars, ic50_vars, index_vars >>

process_variant_group ==
    /\ k562_pc = "grouped"
    /\ variant_groups # <<>>
    /\ variants' = StoreGroup(variants, Head(variant_groups),
                              GroupRows(k562_df, Head(variant_groups)))
    /\ processed_count' = IF variants' = variants THEN processed_count
                          ELSE processed_count + 1
    /\ variant_groups' = Tail(variant_groups)
    /\ UNCHANGED << k562_pc, k562_df, vars, ic50_vars, index_vars >>

k562_return ==
    /\ k562_pc = "grouped"
    /\ variant_groups = <<>>
    /\ k562_pc' = "returned"
    /\ UNCHANGED << k562_df, variant_groups, variants, processed_count, vars, ic50_vars,
                    index_vars >>

InitK562 ==
    /\ HeatmapIdle /\ IC50Idle /\ IndexIdle
    /\ k562_pc = "start"
    /\ k562_df = <<>>
    /\ variant_groups = <<>>
    /\ variants = EmptyDict
    /\ processed_count = 0

NextK562 == k562_read_csv \/ process_variant_group \/ k562_return
SpecK562 == InitK562 /\ [][NextK562]_<< vars, elsewhere >>

\* =====================================================================
\* the search-index builder (build_search_index.py).  The CSV file is
\* missing, unreadable, or a table with or without the columns Gene and
\* Drug; the variants directory is missing or holds gene directories with
\* variant files, some of which cannot be loaded.
IndexRows ==
    {[Gene |-> g, Drug |-> d, ref_aa |-> "T", protein_start |-> 1, alt_aa |-> "I"] :
       g \in {"ABL1", NaN}, d \in {"Imatinib", NaN}}
    \cup {[Gene |-> "ABL1", Drug |-> "Imatinib", ref_aa |-> NaN, protein_start |-> 1,
           alt_aa |-> "I"]}

CsvFiles ==
    {[state |-> st, columns |-> {}, rows |-> <<>>] : st \in {"missing", "unreadable"}}
    \cup {[state |-> "table", columns |-> cols, rows |-> rows] :
            cols \in {{"Gene", "Drug"}, {"Gene"}, {}},
            rows \in SeqsUpTo(IndexRows, MaxRows)}

VariantFiles ==
    {[readable |-> FALSE, variant_string |-> "", protein_change |-> "",
      drugs_tested |-> <<>>],
     [readable |-> TRUE, variant_string |-> "T1I", protein_change |-> "p.T1I",
      drugs_tested |-> <<>>],
     [readable |-> TRUE, variant_string |-> "T1I", protein_change |-> "p.T1I",
      drugs_tested |-> <<"Imatinib">>]}

VariantDirs ==
    {[exists |-> e, dirs |-> <<>>] : e \in BOOLEAN}
    \cup {[exists |-> TRUE, dirs |-> << [name |-> "ABL1", files |-> files] >>] :
            files \in SeqsUpTo(VariantFiles, MaxFiles)}

NoData == [genes |-> EmptyDict, drugs |-> EmptyDict, variants |-> <<>>]

\* Series.unique(): the values in order of first appearance, NaN included
RECURSIVE unique(_)
unique(column) ==
    IF column = <<>> THEN <<>>
    ELSE LET before == unique(SubSeq(column, 1, Len(column) - 1))
             last == column[Len(column)]
         IN  IF last \in Range(before) THEN before ELSE Append(before, last)

\* len(df[df[column] == value]): NaN is equal to nothing
CountEqual(rows, column, value) ==
    Cardinality({i \in 1..Len(rows) : value # NaN /\ rows[i][column] = value})

Investigational(drug, variant_count) ==
    [name |-> drug, synonyms |-> <<>>, fda_status |-> "Investigational",
     target_class |-> "Unknown", mechanism |-> "Unknown", variant_count |-> variant_count]

Approved(drug, synonyms, mechanism, variant_count) ==
    [name |-> drug, synonyms |-> synonyms, fda_status |-> "Approved",
     target_class |-> "Tyrosine kinase inhibitor", mechanism |-> mechanism,
     variant_count |-> variant_count]

\* the drug entry of process_csv_data (lines 40-70)
CsvDrugEntry(drug, variant_count) ==
    CASE drug = "Imatinib"  -> Approved(drug, <<"Gleevec", "STI571">>,
                                        "BCR-ABL, KIT, PDGFR inhibitor", variant_count)
      [] drug = "Dasatinib" -> Approved(drug, <<"Sprycel", "BMS-354825">>,
                                        "BCR-ABL, SRC, KIT inhibitor", variant_count)
      [] drug = "Nilotinib" -> Approved(drug, <<"Tasigna", "AMN107">>,
                                        "BCR-ABL inhibitor", variant_count)
      [] OTHER              -> Investigational(drug, variant_count)

GeneEntry(gene, variant_count) ==
    [symbol |-> gene, name |-> gene \o " gene", synonyms |-> <<>>, chromosome |-> "",
     variant_count |-> variant_count]

RECURSIVE CsvDrugsFrom(_, _, _, _)
CsvDrugsFrom(dict, rows, unique_drugs, i) ==
    IF i > Len(unique_drugs) THEN dict
    ELSE CsvDrugsFrom(DictSet(dict, unique_drugs[i],
                              CsvDrugEntry(unique_drugs[i],
                                           CountEqual(rows, "Drug", unique_drugs[i]))),
                      rows, unique_drugs, i + 1)

RECURSIVE CsvGenesFrom(_, _, _, _)
CsvGenesFrom(dict, rows, unique_genes, i) ==
    IF i > Len(unique_genes) THEN dict
    ELSE CsvGenesFrom(DictSet(dict, unique_genes[i],
                              GeneEntry(unique_genes[i],
                                        CountEqual(rows, "Gene", unique_genes[i]))),
                      rows, unique_genes, i + 1)

\* row.get(column, '')
RowGet(table, row, column) == IF column \in table.columns THEN row[column] ELSE ""

RECURSIVE CsvVariantsFrom(_, _, _)
CsvVariantsFrom(list, table, i) ==
    IF i > Len(table.rows) THEN list
    ELSE LET row == table.rows[i]
             variant_id == row.ref_aa \o str(row.protein_start) \o row.alt_aa
         IN  CsvVariantsFrom(
               IF row.ref_aa # NaN /\ row.alt_aa # NaN
               THEN Append(list, [gene |-> RowGet(table, row, "Gene"),
                                  variant_string |-> variant_id,
                                  protein_change |-> "p." \o variant_id,
                                  consequence |-> "missense_variant",
                                  drugs_tested |-> <<RowGet(table, row, "Drug")>>])
               ELSE list,
               table, i + 1)

process_csv_data(csv) ==
    IF csv.state # "table" THEN NoData
    ELSE LET unique_drugs == IF "Drug" \in csv.columns
                             THEN unique([i \in 1..Len(csv.rows) |-> csv.rows[i].Drug])
                             ELSE <<>>
             unique_genes == IF "Gene" \in csv.columns
                             THEN unique([i \in 1..Len(csv.rows) |-> csv.rows[i].Gene])
                             ELSE <<>>
         IN  [genes |-> CsvGenesFrom(EmptyDict, csv.rows, unique_genes, 1),
              drugs |-> CsvDrugsFrom(EmptyDict, csv.rows, unique_drugs, 1),
              variants |-> CsvVariantsFrom(<<>>, csv, 1)]

\* the loop over variant_data.get('drugs_tested', []) (lines 137-147)
RECURSIVE CountDrugsFrom(_, _, _)
CountDrugsFrom(dict, drugs_tested, i) ==
    IF i > Len(drugs_tested) THEN dict
    ELSE LET drug == drugs_tested[i]
             d1 == IF ~DictHas(dict, drug)
                   THEN DictSet(dict, drug, Investigational(drug, 0)) ELSE dict
         IN  CountDrugsFrom(
               DictSet(d1, drug, [DictGet(d1, drug) EXCEPT !.variant_count = @ + 1]),
               drugs_tested, i + 1)

\* the loop over gene_dir.glob("*.json") (lines 128-159); a file that cannot
\* be loaded is counted and skipped
RECURSIVE VariantFilesFrom(_, _, _)
VariantFilesFrom(data, gene_dir, i) ==
    IF i > Len(gene_dir.files) THEN data
    ELSE LET variant_data == gene_dir.files[i]
         IN  VariantFilesFrom(
               IF ~variant_data.readable THEN data
               ELSE [data EXCEPT
                       !.drugs = CountDrugsFrom(@, variant_data.drugs_tested, 1),
                       !.variants = Append(@,
                          [gene |-> gene_dir.name,
                           variant_string |-> variant_data.variant_string,
                           protein_change |-> variant_data.protein_change,
                           ic50 |-> "N/A",
                           qc_pass |-> FALSE,
                           searchable_text |-> gene_dir.name \o " "
                                                 \o variant_data.variant_string \o " "
                                                 \o variant_data.protein_change])],
               gene_dir, i + 1)

RECURSIVE GeneDirsFrom(_, _, _)
GeneDirsFrom(data, dirs, i) ==
    IF i > Len(dirs) THEN data
    ELSE LET read == VariantFilesFrom(data, dirs[i], 1)
             variant_count == Len(dirs[i].files)
         IN  GeneDirsFrom(
               IF variant_count > 0
               THEN [read EXCEPT !.genes = DictSet(@, dirs[i].name,
                                                   GeneEntry(dirs[i].name, variant_count))]
               ELSE read,
               dirs, i + 1)

collect_genes_from_variants(dir) ==
    IF ~dir.exists THEN NoData ELSE GeneDirsFrom(NoData, dir.dirs, 1)

\* (variant) a fallback that only looks at the drugs
no_drugs_found(gs, ds) == ds.keys = <<>>

\* if not genes and not drugs
no_csv_data(gs, ds) == gs.keys = <<>> /\ ds.keys = <<>>

default_drugs ==
    DictSet(DictSet(DictSet(EmptyDict,
      "Imatinib", Approved("Imatinib", <<"Gleevec", "STI571">>,
                           "BCR-ABL, KIT, PDGFR inhibitor", 0)),
      "Dasatinib", Approved("Dasatinib", <<"Sprycel", "BMS-354825">>,
                            "BCR-ABL, SRC, KIT inhibitor", 0)),
      "Nilotinib", Approved("Nilotinib", <<"Tasigna", "AMN107">>, "BCR-ABL inhibitor", 0))

\* list(dict.values())
values(dict) == [i \in 1..Len(dict.keys) |-> DictGet(dict, dict.keys[i])]

\* genes, drugs, variants = process_csv_data(csv_path)
call_process_csv_data ==
    /\ index_pc = "start"
    /\ LET data == process_csv_data(csv_file)
       IN  genes' = data.genes /\ drugs' = data.drugs /\ index_variants' = data.variants
    /\ index_pc' = "csv_done"
    /\ UNCHANGED << csv_file, variants_dir, index_log, search_index, vars, ic50_vars,
                    k562_vars >>

\* if not genes and not drugs: fall back to variant files
fall_back_to_variant_files ==
    /\ index_pc = "csv_done"
    /\ IF no_csv_data(genes, drugs)
       THEN LET data == collect_genes_from_variants(variants_dir)
            IN  /\ genes' = data.genes /\ drugs' = data.drugs
                /\ index_variants' = data.variants
                /\ index_log' = Append(index_log,
                                       "No CSV data found, falling back to variant files...")
       ELSE UNCHANGED << genes, drugs, index_variants, index_log >>
    /\ index_pc' = "sourced"
    /\ UNCHANGED << csv_file, variants_dir, search_index, vars, ic50_vars, k562_vars >>

\* if not drugs: add default drugs
add_default_drugs ==
    /\ index_pc = "sourced"
    /\ IF drugs.keys = <<>>
       THEN /\ drugs' = default_drugs
            /\ index_log' = Append(index_log, "No drugs found, adding defaults...")
       ELSE UNCHANGED << drugs, index_log >>
    /\ index_pc' = "defaulted"
    /\ UNCHANGED << csv_file, variants_dir, genes, index_variants, search_index, vars,
                    ic50_vars, k562_vars >>

\* build and save the search index (lastUpdate, the time of the run, left out)
save_search_index ==
    /\ index_pc = "defaulted"
    /\ search_index' =
         [genes |-> values(genes),
          drugs |-> values(drugs),
          variants |-> index_variants,
          stats |-> [total_genes |-> Len(genes.keys),
                     total_drugs |-> Len(drugs.keys),
                     total_variants |-> Len(index_variants)]]
    /\ index_pc' = "saved"
    /\ UNCHANGED << csv_file, variants_dir, genes, drugs, index_variants, index_log, vars,
                    ic50_vars, k562_vars >>

InitIndex ==
    /\ HeatmapIdle /\ IC50Idle /\ K562Idle
    /\ index_pc = "start"
    /\ csv_file \in CsvFiles
    /\ variants_dir \in VariantDirs
    /\ genes = EmptyDict
    /\ drugs = EmptyDict
    /\ index_variants = <<>>
    /\ index_log = <<>>
    /\ search_index = NoneStr

NextIndex == call_process_csv_data \/ fall_back_to_variant_files \/ add_default_drugs
             \/ save_search_index
SpecIndex == InitIndex /\ [][NextIndex]_<< vars, elsewhere >>

\* =====================================================================
\* The properties.  Everything below is stated over the input rows df and
\* the returned document, with its own reading of the input: which rows
\* qualify for a group, which rows share a group, and the statistics of a
\* group are recomputed here from df.
\* =====================================================================
CanonicalAlphabet ==
    {"A", "C", "D", "E", "F", "G", "H", "I", "K", "L",
     "M", "N", "P", "Q", "R", "S", "T", "V", "W", "Y"}
DoseLevels == {"low", "medium", "high"}
MappedConcentrations == {5, 30, 100}
LevelOf(conc) == IF conc = 5 THEN "low" ELSE IF conc = 30 THEN "medium" ELSE "high"

Rows == 1..Len(df)
InputPositions == {df[i].protein_start : i \in Rows}

\* the measurements that reach a group: canonical alternate amino acid, mapped
\* concentration, reference amino acid recorded
Classified(i) ==
    /\ df[i].alt_aa \in CanonicalAlphabet
    /\ df[i].conc \in MappedConcentrations
    /\ df[i].ref_aa # NaN

\* the group key of the specification: gene, drug, position, reference and
\* alternate amino acid, dose level
SameSixFields(i, j) ==
    /\ df[i].Gene = df[j].Gene /\ df[i].Drug = df[j].Drug
    /\ df[i].protein_start = df[j].protein_start
    /\ df[i].ref_aa = df[j].ref_aa /\ df[i].alt_aa = df[j].alt_aa
    /\ LevelOf(df[i].conc) = LevelOf(df[j].conc)

\* the group key with the variant name (species) added
SameGroup(i, j) == SameSixFields(i, j) /\ df[i].species = df[j].species

SixFieldGroupOf(i) == {j \in Rows : Classified(j) /\ SameSixFields(i, j)}
GroupOf(i) == {j \in Rows : Classified(j) /\ SameGroup(i, j)}
Present(I) == {j \in I : df[j].netgr_obs.k = "num"}

\* the groups that fall on one (position, amino acid, dose level) of the matrix
GroupsAt(p, aa, dl) ==
    {GroupOf(i) : i \in {j \in Rows : /\ Classified(j)
                                      /\ df[j].protein_start = p
                                      /\ df[j].alt_aa = aa
                                      /\ LevelOf(df[j].conc) = dl}}

RECURSIVE SumResponses(_)
SumResponses(I) ==
    IF I = {} THEN Num(0)
    ELSE LET j == CHOOSE x \in I : TRUE
         IN  FAdd(df[j].netgr_obs, SumResponses(I \ {j}))

RECURSIVE SumSquares(_)
SumSquares(I) ==
    IF I = {} THEN Num(0)
    ELSE LET j == CHOOSE x \in I : TRUE
         IN  FAdd(FMul(df[j].netgr_obs, df[j].netgr_obs), SumSquares(I \ {j}))

\* value is the arithmetic mean of the responses I (I not empty)
IsMeanOf(value, I) ==
    IsNum(value) /\ FMul(value, Num(Cardinality(I))) = SumResponses(I)

\* the sample variance (divisor n - 1) of the responses I, n >= 2:
\* (n * sum of squares - square of the sum) / (n * (n - 1))
SampleVariance(I) ==
    LET n == Cardinality(I)
        total == SumResponses(I)
    IN  FDivInt(FSub(FMul(Num(n), SumSquares(I)), FMul(total, total)), n * (n - 1))

AllEqual(I) == \A i \in I, j \in I : df[i].netgr_obs = df[j].netgr_obs

SquareOf(std) == IF std.k = "sqrt" THEN Frac(std.n, std.d) ELSE FMul(std, std)
NonNegative(std) == std.k = "sqrt" \/ (std.k = "num" /\ std.n >= 0)

\* the returned document
Matrix == heatmap_data.matrix
PositionKeys == DictKeys(Matrix)
AminoAcidKeys(ps) == DictKeys(DictGet(Matrix, ps))
EntryOf(ps, aa) == DictGet(DictGet(Matrix, ps), aa)
CellOf(ps, aa, dl) == EntryOf(ps, aa)[dl]
Returned == pc = "done"
\* grouped_stats has just been computed (no later stage assigns it)
Grouped == pc = "grouped"

\* the counts and values the groups at one matrix place can give a cell
IsStatOf(cell, G) ==
    /\ cell.count = Cardinality(Present(G))
    /\ IF Present(G) = {} THEN cell.value = NaNv ELSE IsMeanOf(cell.value, Present(G))

\* ---------------------------------------------------------------------
\* C1: a measurement whose concentration is not 5, 30 or 100 contributes to
\* no cell and to no output: the count of every matrix cell is the number of
\* mapped measurements (with a response) of one group at that place, 0 when
\* no group is there; a position all of whose measurements are unmapped is
\* in neither the matrix, nor the positions list, nor the variant lookup.
C1_UnmappedExcluded ==
    Returned =>
      /\ \A p \in InputPositions : \A dl \in DoseLevels :
           str(p) \in PositionKeys =>
             \A aa \in AminoAcidKeys(str(p)) :
               IF GroupsAt(p, aa, dl) = {}
               THEN CellOf(str(p), aa, dl).count = 0
               ELSE \E G \in GroupsAt(p, aa, dl) :
                      CellOf(str(p), aa, dl).count = Cardinality(Present(G))
      /\ \A p \in InputPositions :
           (\A i \in Rows : df[i].protein_start = p
                              => df[i].conc \notin MappedConcentrations)
           => /\ str(p) \notin PositionKeys
              /\ p \notin Range(heatmap_data.positions)
              /\ \A key \in DictKeys(heatmap_data.variant_lookup) :
                   DictGet(heatmap_data.variant_lookup, key).position # p

\* an unmapped measurement stands next to a mapped one of the same variant
C1_Witness ==
    /\ Returned
    /\ \E i \in Rows, j \in Rows :
         /\ Classified(i) /\ df[i].netgr_obs.k = "num"
         /\ df[j].conc \notin MappedConcentrations
         /\ df[j].netgr_obs.k = "num"
         /\ df[j].alt_aa = df[i].alt_aa /\ df[j].ref_aa = df[i].ref_aa
         /\ df[j].protein_start = df[i].protein_start
         /\ df[j].species = df[i].species /\ df[j].Drug = df[i].Drug
         /\ CellOf(str(df[i].protein_start), df[i].alt_aa, LevelOf(df[i].conc)).count = 1

\* ---------------------------------------------------------------------
\* C2 as stated: for every group key (gene, drug, position, reference amino
\* acid, alternate amino acid, dose level) with a classified measurement, the
\* aggregate cell's count is the number of measurements (with a response) of
\* the group and its mean is their arithmetic mean.
C2_SixFieldGroupStats ==
    Grouped =>
      \A i \in Rows : Classified(i) =>
        \A r \in 1..Len(grouped_stats) :
          ( /\ grouped_stats[r].Gene = df[i].Gene
            /\ grouped_stats[r].Drug = df[i].Drug
            /\ grouped_stats[r].protein_start = df[i].protein_start
            /\ grouped_stats[r].ref_aa = df[i].ref_aa
            /\ grouped_stats[r].alt_aa = df[i].alt_aa
            /\ grouped_stats[r].dose_level = LevelOf(df[i].conc) )
          => /\ grouped_stats[r].count = Cardinality(Present(SixFieldGroupOf(i)))
             /\ Present(SixFieldGroupOf(i)) # {}
                  => IsMeanOf(grouped_stats[r].mean, Present(SixFieldGroupOf(i)))

\* C2 amended: the group key also holds the variant name (species).  Every
\* such key with a classified measurement has exactly one aggregate cell; its
\* count is the number of the group's measurements that have a response and
\* its mean is the arithmetic mean of exactly those responses.
C2_GroupStats ==
    Grouped =>
      /\ \A i \in Rows : Classified(i) =>
           \E r \in 1..Len(grouped_stats) :
             /\ GroupKey(grouped_stats[r]) =
                  [species |-> df[i].species, protein_start |-> df[i].protein_start,
                   alt_aa |-> df[i].alt_aa, ref_aa |-> df[i].ref_aa,
                   dose_level |-> LevelOf(df[i].conc), Gene |-> df[i].Gene,
                   Drug |-> df[i].Drug]
             /\ grouped_stats[r].count = Cardinality(Present(GroupOf(i)))
             /\ Present(GroupOf(i)) # {}
                  => IsMeanOf(grouped_stats[r].mean, Present(GroupOf(i)))
             /\ \A q \in 1..Len(grouped_stats) :
                  GroupKey(grouped_stats[q]) = GroupKey(grouped_stats[r]) => q = r
      /\ Len(grouped_stats) = Cardinality({GroupOf(i) : i \in {j \in Rows : Classified(j)}})

\* two replicates with different responses have been aggregated into one cell
C2_Witness ==
    /\ pc = "grouped"
    /\ \E r \in 1..Len(grouped_stats) :
         grouped_stats[r].count = 2 /\ grouped_stats[r].mean = Num(-3)

\* ---------------------------------------------------------------------
\* C3: in every cell of the output matrix, count == 1 implies std == null.
C3_SingleReplicateStdNull ==
    Returned =>
      \A ps \in PositionKeys : \A aa \in AminoAcidKeys(ps) : \A dl \in DoseLevels :
        CellOf(ps, aa, dl).count = 1 => CellOf(ps, aa, dl).std = None

\* ---------------------------------------------------------------------
\* C4: in every cell of the output matrix, count == 0 implies value == null
\* and std == null, and count >= 1 implies that value is defined; a group
\* whose responses are all missing shows as the null placeholder.
C4_EmptyCellIsNull ==
    Returned =>
      \A ps \in PositionKeys : \A aa \in AminoAcidKeys(ps) : \A dl \in DoseLevels :
        /\ CellOf(ps, aa, dl).count = 0 => CellOf(ps, aa, dl) = NullCell
        /\ CellOf(ps, aa, dl).count >= 1 => IsNum(CellOf(ps, aa, dl).value)

\* ---------------------------------------------------------------------
\* C5: in every cell of the output matrix with count >= 2, std is defined,
\* non-negative and the sample standard deviation (divisor count - 1) of the
\* responses of the cell's group; it is 0 exactly when they are all equal.
C5_SampleStd ==
    Returned =>
      \A p \in InputPositions : str(p) \in PositionKeys =>
        \A aa \in AminoAcidKeys(str(p)) : \A dl \in DoseLevels :
          LET cell == CellOf(str(p), aa, dl)
          IN  cell.count >= 2 =>
                /\ NonNegative(cell.std)
                /\ \E G \in GroupsAt(p, aa, dl) :
                     /\ Cardinality(Present(G)) = cell.count
                     /\ SquareOf(cell.std) = SampleVariance(Present(G))
                     /\ cell.std = Num(0) <=> AllEqual(Present(G))

\* a cell of two replicates with different responses
C5_Witness ==
    /\ Returned
    /\ \E ps \in PositionKeys : \E aa \in AminoAcidKeys(ps) : \E dl \in DoseLevels :
         CellOf(ps, aa, dl).count >= 2 /\ CellOf(ps, aa, dl).std # Num(0)

\* ---------------------------------------------------------------------
\* C6: under every position key of the output matrix the amino-acid keys are
\* exactly the 20 canonical amino acids, each once.
C6_TwentyAminoAcids ==
    Returned =>
      \A ps \in PositionKeys :
        /\ AminoAcidKeys(ps) = CanonicalAlphabet
        /\ Len(DictGet(Matrix, ps).keys) = 20

\* a matrix built from a file that also holds a non-canonical amino acid
C6_Witness ==
    /\ Returned
    /\ PositionKeys # {}
    /\ \E i \in Rows : df[i].alt_aa \notin CanonicalAlphabet

\* ---------------------------------------------------------------------
\* C7: the position keys of the matrix are exactly the positions that have
\* an aggregate cell (not the integer span from the least to the greatest),
\* and the positions list is that set, ascending and without duplicates.
PositionsWithCell == {df[i].protein_start : i \in {j \in Rows : Classified(j)}}

C7_ObservedPositions ==
    Returned =>
      /\ PositionKeys = {str(p) : p \in PositionsWithCell}
      /\ Len(Matrix.keys) = Cardinality(PositionsWithCell)
      /\ Range(heatmap_data.positions) = PositionsWithCell
      /\ \A i \in 1..Len(heatmap_data.positions), j \in 1..Len(heatmap_data.positions) :
           i < j => heatmap_data.positions[i] < heatmap_data.positions[j]

\* two observed positions with a gap between them
C7_Witness ==
    /\ Returned
    /\ heatmap_data.positions = <<1, MaxPos>>
    /\ MaxPos > 2

\* ---------------------------------------------------------------------
\* C8: the three dose levels of a matrix entry are populated independently:
\* a dose level holds the statistics of a group at that (position, amino
\* acid, dose level) when there is one, and otherwise exactly
\* {value: null, std: null, count: 0}.
C8_DoseLevelsIndependent ==
    Returned =>
      \A p \in InputPositions : str(p) \in PositionKeys =>
        \A aa \in AminoAcidKeys(str(p)) : \A dl \in DoseLevels :
          IF GroupsAt(p, aa, dl) = {}
          THEN CellOf(str(p), aa, dl) = NullCell
          ELSE \E G \in GroupsAt(p, aa, dl) : IsStatOf(CellOf(str(p), aa, dl), G)

\* two replicates at concentration 5 with responses -0.02 and -0.04: the low
\* cell has count 2 and mean -0.03, the other two levels are null placeholders
C8_Witness ==
    /\ Returned
    /\ \E ps \in PositionKeys : \E aa \in AminoAcidKeys(ps) :
         /\ CellOf(ps, aa, "low").count = 2
         /\ CellOf(ps, aa, "low").value = Num(-3)
         /\ CellOf(ps, aa, "medium") = NullCell
         /\ CellOf(ps, aa, "high") = NullCell

\* ---------------------------------------------------------------------
\* C9: cells are partitioned by drug: every observed drug has its own
\* matrix, and the cell of drug D at (position, amino acid, dose level)
\* aggregates the measurements of drug D only.  The document holds one
\* matrix, so it is the matrix of every observed drug.
GroupsOfDrugAt(drug, p, aa, dl) ==
    {G \in GroupsAt(p, aa, dl) : \A i \in G : df[i].Drug = drug}
ObservedDrugs == {df[i].Drug : i \in {j \in Rows : Classified(j)}}

C9_PartitionedByDrug ==
    Returned =>
      \A drug \in ObservedDrugs :
        \A p \in InputPositions : str(p) \in PositionKeys =>
          \A aa \in AminoAcidKeys(str(p)) : \A dl \in DoseLevels :
            IF GroupsOfDrugAt(drug, p, aa, dl) = {}
            THEN CellOf(str(p), aa, dl) = NullCell
            ELSE \E G \in GroupsOfDrugAt(drug, p, aa, dl) :
                   IsStatOf(CellOf(str(p), aa, dl), G)

\* ---------------------------------------------------------------------
\* C10: at every position of the matrix all 20 entries carry the same
\* reference amino acid, which is one recorded by a measurement at that
\* position or the unknown sentinel, and never null.
RecordedReferences(p) ==
    {df[i].ref_aa : i \in {j \in Rows : Classified(j) /\ df[j].protein_start = p}}

C10_ReferencePerPosition ==
    Returned =>
      \A p \in InputPositions : str(p) \in PositionKeys =>
        \E ref \in RecordedReferences(p) \cup {"X"} :
          \A aa \in AminoAcidKeys(str(p)) : EntryOf(str(p), aa).ref_aa = ref

\* ---------------------------------------------------------------------
\* the value ranges of the returned document
Ranges == heatmap_data.metadata.value_range
Leq(a, b) == IsNum(a) /\ IsNum(b) /\ ~FLess(b, a)

\* the values of the matrix that are not null, of one dose level and of all
ValuesAt(dl) ==
    {CellOf(ps, aa, dl).value : ps \in PositionKeys, aa \in CanonicalAlphabet}
      \ {None}
ValuesOfMatrix == UNION {ValuesAt(dl) : dl \in DoseLevels}

IsLeastOf(m, S) == m \in S /\ \A v \in S : Leq(m, v)
IsGreatestOf(m, S) == m \in S /\ \A v \in S : Leq(v, m)

\* C11: whenever the matrix holds a non-null value, the global minimum is
\* the minimum of the three reported per-dose minima and the global maximum
\* the maximum of the three reported per-dose maxima, also when some dose
\* level has no non-null value.
C11_GlobalFromDoseRanges ==
    (Returned /\ ValuesOfMatrix # {}) =>
      /\ IsLeastOf(Ranges.min, {Ranges.low.min, Ranges.medium.min, Ranges.high.min})
      /\ IsGreatestOf(Ranges.max, {Ranges.low.max, Ranges.medium.max, Ranges.high.max})

\* ---------------------------------------------------------------------
\* C12: ranges are taken over the non-null values only: the min and max of a
\* dose level that has a non-null value are its least and greatest non-null
\* value, the global min and max are the least and greatest non-null value
\* of all, and every non-null value lies between global min and max.
C12_RangesOverNonNull ==
    Returned =>
      /\ \A dl \in DoseLevels : ValuesAt(dl) # {} =>
           /\ IsLeastOf(Ranges[dl].min, ValuesAt(dl))
           /\ IsGreatestOf(Ranges[dl].max, ValuesAt(dl))
      /\ ValuesOfMatrix # {} =>
           /\ IsLeastOf(Ranges.min, ValuesOfMatrix)
           /\ IsGreatestOf(Ranges.max, ValuesOfMatrix)
      /\ \A v \in ValuesOfMatrix : Leq(Ranges.min, v) /\ Leq(v, Ranges.max)

\* ---------------------------------------------------------------------
\* C13: one empty-range convention: a matrix without non-null value has the
\* global range (0, 1), and every dose level without non-null value reports
\* (0, 1) as well, whether or not the other dose levels have data.
BlankMatrix == FillPosition(EmptyDict, 1)
RangesOfEmpty == ComputeRanges(EmptyDict)
RangesOfBlank == ComputeRanges(BlankMatrix)

C13_EmptyRangeSentinel ==
    /\ RangesOfEmpty.min = Num(0) /\ RangesOfEmpty.max = Num(1)
    /\ RangesOfBlank.min = Num(0) /\ RangesOfBlank.max = Num(1)
    /\ \A dl \in DoseLevels : RangesOfBlank[dl] = [min |-> Num(0), max |-> Num(1)]
    /\ Returned =>
         /\ ValuesOfMatrix = {} => Ranges.min = Num(0) /\ Ranges.max = Num(1)
         /\ \A dl \in DoseLevels :
              ValuesAt(dl) = {} => Ranges[dl] = [min |-> Num(0), max |-> Num(1)]

\* one dose level has data and another has none
C13_Witness ==
    /\ Returned
    /\ ValuesAt("low") = {Num(-2)}
    /\ ValuesAt("medium") = {}
    /\ Ranges.medium = [min |-> Num(0), max |-> Num(1)]

\* ---------------------------------------------------------------------
\* C14: a run on an empty measurement set, or on one from which every
\* measurement is filtered out, does not raise.
C14_EmptyInputCompletes ==
    (\A i \in Rows : ~Classified(i)) => pc # "raised"

\* ---------------------------------------------------------------------
\* the variant lookup of the returned document
Lookup == heatmap_data.variant_lookup
KeyFor(p, aa) == ToString(p) \o "_" \o aa
PairsWithCell ==
    {<<df[i].protein_start, df[i].alt_aa>> : i \in {j \in Rows : Classified(j)}}

\* C15 as stated: the lookup has exactly one entry for every (position,
\* amino acid) of the dense grid, null-valued pairs included: its size is
\* the number of observed positions times 20, every id is non-empty.
C15_LookupCoversGrid ==
    Returned =>
      /\ DictKeys(Lookup) =
           {KeyFor(p, aa) : p \in Range(heatmap_data.positions), aa \in CanonicalAlphabet}
      /\ Len(Lookup.keys) = Len(heatmap_data.positions) * 20
      /\ \A key \in DictKeys(Lookup) : DictGet(Lookup, key).id # ""

\* C15 amended: the lookup has exactly one entry for every (position, amino
\* acid) pair that has an aggregate cell and none for a gap-filled pair: its
\* size is the number of such pairs, and every id is non-empty.
C15_LookupCoversData ==
    Returned =>
      /\ DictKeys(Lookup) = {KeyFor(pair[1], pair[2]) : pair \in PairsWithCell}
      /\ Len(Lookup.keys) = Cardinality(PairsWithCell)
      /\ \A key \in DictKeys(Lookup) : DictGet(Lookup, key).id # ""

\* a returned grid with gap-filled pairs, and a pair whose reference is 'X'
C15_Witness ==
    /\ Returned
    /\ Len(Lookup.keys) = 1
    /\ Len(heatmap_data.positions) * 20 = 20
    /\ \E ps \in PositionKeys : \E aa \in AminoAcidKeys(ps) : EntryOf(ps, aa).ref_aa = "X"

\* ---------------------------------------------------------------------
\* C16: the entry under "<position>_<aminoAcid>" records that position and
\* that amino acid, and its id is the reference amino acid of the matrix
\* entry at (position, amino acid), then the position, then the amino acid.
C16_LookupEntryContent ==
    Returned =>
      \A key \in DictKeys(Lookup) :
        \E p \in InputPositions : \E aa \in CanonicalAlphabet :
          /\ key = KeyFor(p, aa)
          /\ DictGet(Lookup, key).position = p
          /\ DictGet(Lookup, key).alt_aa = aa
          /\ DictGet(Lookup, key).id = EntryOf(str(p), aa).ref_aa \o ToString(p) \o aa

\* ---------------------------------------------------------------------
\* C17: when the reference amino acid of a matrix entry is the unknown
\* sentinel, its lookup entry exists and the id is that sentinel symbol, then
\* the position, then the amino acid.
C17_SentinelInId ==
    Returned =>
      \A p \in InputPositions : str(p) \in PositionKeys =>
        \A aa \in AminoAcidKeys(str(p)) :
          EntryOf(str(p), aa).ref_aa = "X" =>
            /\ KeyFor(p, aa) \in DictKeys(Lookup)
            /\ DictGet(Lookup, KeyFor(p, aa)).id = "X" \o ToString(p) \o aa

\* ---------------------------------------------------------------------
\* C18: row-order independence: every reordering of the rows gives the same
\* matrix keys and, at every (position, amino acid, dose level), the same
\* value, std and count.
Reorderings(rows) ==
    {[i \in 1..Len(rows) |-> rows[f[i]]] :
       f \in {g \in [1..Len(rows) -> 1..Len(rows)] :
                \A i \in 1..Len(rows), j \in 1..Len(rows) : g[i] = g[j] => i = j}}

\* the keys of a matrix with the three cells under each of them
CellsOf(matrix) ==
    [ps \in DictKeys(matrix) |->
       [aa \in DictKeys(DictGet(matrix, ps)) |->
          [dl \in DoseLevels |-> EntryAt(matrix, ps, aa)[dl]]]]

IsCanonicalRow(row) == row.alt_aa \in CanonicalAlphabet

C19_NonCanonicalExcluded ==
    /\ Grouped => grouped_stats = Aggregate(SelectSeq(df, IsCanonicalRow))
    /\ Returned =>
         /\ Matrix = MatrixFor(SelectSeq(df, IsCanonicalRow))
         /\ Lookup = LookupFor(SelectSeq(df, IsCanonicalRow))
         /\ \A ps \in PositionKeys : AminoAcidKeys(ps) \subseteq CanonicalAlphabet
         /\ \A key \in DictKeys(Lookup) : DictGet(Lookup, key).alt_aa \in CanonicalAlphabet
         /\ \A p \in InputPositions :
              (\A i \in Rows : df[i].protein_start = p => ~IsCanonicalRow(df[i]))
              => str(p) \notin PositionKeys /\ p \notin Range(heatmap_data.positions)

\* a position seen only through a non-canonical measurement, next to a
\* canonical measurement at another position
C19_Witness ==
    /\ Returned
    /\ \E i \in Rows :
         /\ ~IsCanonicalRow(df[i])
         /\ df[i].conc \in MappedConcentrations
         /\ df[i].protein_start \notin Range(heatmap_data.positions)
         /\ heatmap_data.positions # <<>>

\* ---------------------------------------------------------------------
\* C20: a measurement with a missing response is excluded from its group:
\* count is the number of the group's measurements that have a response,
\* and the cells of the groups that keep a response are those of the input
\* without the measurements that have none.
HasResponse(row) == row.netgr_obs.k = "num"

C20_MissingResponseExcluded ==
    Grouped =>
      /\ {grouped_stats[r] : r \in {q \in 1..Len(grouped_stats) : grouped_stats[q].count >= 1}}
           = Range(Aggregate(SelectSeq(df, HasResponse)))
      /\ \A i \in Rows : Classified(i) =>
           \E r \in 1..Len(grouped_stats) :
             /\ grouped_stats[r].species = df[i].species
             /\ grouped_stats[r].Drug = df[i].Drug
             /\ grouped_stats[r].protein_start = df[i].protein_start
             /\ grouped_stats[r].alt_aa = df[i].alt_aa
             /\ grouped_stats[r].ref_aa = df[i].ref_aa
             /\ grouped_stats[r].dose_level = LevelOf(df[i].conc)
             /\ grouped_stats[r].count = Cardinality(Present(GroupOf(i)))

\* a group of two measurements, one of them without response
C20_Witness ==
    /\ pc = "grouped"
    /\ \E i \in Rows, j \in Rows :
         /\ Classified(i) /\ Classified(j) /\ j \in GroupOf(i)
         /\ HasResponse(df[i]) /\ ~HasResponse(df[j])
    /\ \E r \in 1..Len(grouped_stats) : grouped_stats[r].count = 1

\* ---------------------------------------------------------------------
\* C21: a single bad record (unmapped concentration, missing response,
\* missing reference amino acid or non-canonical alternate amino acid) next
\* to valid records never aborts the run, and the cells of the valid records
\* are those of the input without the bad record.
IsValid(i) == Classified(i) /\ HasResponse(df[i])

Without(rows, i) ==
    [k \in 1..(Len(rows) - 1) |-> IF k < i THEN rows[k] ELSE rows[k + 1]]

C21_BadRecordHarmless ==
    /\ pc = "raised" => \A j \in Rows : ~IsValid(j)
    /\ Returned =>
         \A i \in Rows : ~IsValid(i) =>
           \A j \in Rows : IsValid(j) =>
             CellOf(str(df[j].protein_start), df[j].alt_aa, LevelOf(df[j].conc))
               = EntryAt(MatrixFor(Without(df, i)), str(df[j].protein_start),
                         df[j].alt_aa)[LevelOf(df[j].conc)]

\* ---------------------------------------------------------------------
\* C22: when the measurements of one (position, alternate amino acid) carry
\* contradictory reference amino acids, the run completes and the matrix
\* entry holds the reference of the first such measurement in input order.
MeasurementsAt(p, aa) ==
    {i \in Rows : Classified(i) /\ df[i].protein_start = p /\ df[i].alt_aa = aa}

FirstSeen(I) == CHOOSE i \in I : \A j \in I : i <= j

Contradictory(I) == \E i \in I, j \in I : df[i].ref_aa # df[j].ref_aa

C22_FirstSeenReference ==
    \A p \in InputPositions : \A aa \in CanonicalAlphabet :
      Contradictory(MeasurementsAt(p, aa)) =>
        /\ pc # "raised"
        /\ Returned =>
             EntryOf(str(p), aa).ref_aa = df[FirstSeen(MeasurementsAt(p, aa))].ref_aa

\* ---------------------------------------------------------------------
\* C23: in the returned matrix the position keys iterate in ascending
\* numeric order and, under every position, the amino-acid keys iterate in
\* canonical-alphabet order, whichever amino acids had data.
PositionOrder == Matrix.keys
AminoAcidOrder(ps) == DictGet(Matrix, ps).keys

C23_PresentationOrder ==
    Returned =>
      /\ \A i \in 1..Len(PositionOrder), j \in 1..Len(PositionOrder) :
            i < j => int(PositionOrder[i]) < int(PositionOrder[j])
      /\ \A ps \in PositionKeys : AminoAcidOrder(ps) = get_canonical_amino_acids

\* ---------------------------------------------------------------------
\* C24: the fill step keeps every entry that is already in the matrix (its
\* three cells and its reference amino acid) and only adds null entries for
\* absent (position, amino acid) pairs; the computation of the value ranges
\* and the later passes leave the matrix as it is, and the returned matrix is
\* that matrix.
EntriesKept(before, after) ==
    \A ps \in DictKeys(before) :
      /\ ps \in DictKeys(after)
      /\ \A aa \in DictKeys(DictGet(before, ps)) :
           /\ aa \in DictKeys(DictGet(after, ps))
           /\ EntryAt(after, ps, aa) = EntryAt(before, ps, aa)

OnlyNullAdded(before, after) ==
    \A ps \in DictKeys(after) : \A aa \in DictKeys(DictGet(after, ps)) :
      (ps \notin DictKeys(before) \/ aa \notin DictKeys(DictGet(before, ps)))
        => /\ EntryAt(after, ps, aa).low = NullCell
           /\ EntryAt(after, ps, aa).medium = NullCell
           /\ EntryAt(after, ps, aa).high = NullCell

C24_NonDestructive ==
    [][ /\ pc = "indexed" =>
             /\ EntriesKept(position_aa_matrix, position_aa_matrix')
             /\ OnlyNullAdded(position_aa_matrix, position_aa_matrix')
        /\ pc \in {"filled", "scaled"} => position_aa_matrix' = position_aa_matrix
        /\ pc = "scaled" => heatmap_data'.matrix = position_aa_matrix ]_vars

\* a returned matrix with an entry populated from data next to a filled one
C24_Witness ==
    /\ Returned
    /\ \E ps \in PositionKeys : \E aa \in AminoAcidKeys(ps), other \in AminoAcidKeys(ps) :
         /\ CellOf(ps, aa, "low").count = 1
         /\ EntryOf(ps, other) = NewEntry(NoneStr)
         /\ variant_lookup # EmptyDict

\* ---------------------------------------------------------------------
\* C25: in every returned document position_range.min and .max are the
\* smallest and the largest element of the positions list,
\* positions_with_data is the length of that list and the number of position
\* keys of the matrix, and amino_acids_count is 20.
Metadata == heatmap_data.metadata
Positions == heatmap_data.positions

C25_MetadataMatchesBody ==
    Returned =>
      /\ Positions # <<>>
      /\ Metadata.position_range.min \in Range(Positions)
      /\ Metadata.position_range.max \in Range(Positions)
      /\ \A p \in Range(Positions) :
           Metadata.position_range.min <= p /\ p <= Metadata.position_range.max
      /\ Metadata.position_range.positions_with_data = Len(Positions)
      /\ Metadata.position_range.positions_with_data = Cardinality(PositionKeys)
      /\ Metadata.amino_acids_count = 20

\* a returned document with two positions
C25_Witness ==
    /\ Returned
    /\ Len(Positions) = 2
    /\ Metadata.position_range.min < Metadata.position_range.max

\* ---------------------------------------------------------------------
\* C26: metadata.total_variants is the number of distinct (position,
\* alternate amino acid) pairs that have an aggregated group, which is also
\* the number of variant_lookup entries and the number of matrix entries
\* that were populated from data rather than gap-filled.
PopulatedEntries ==
    {pair \in PositionKeys \X CanonicalAlphabet :
       /\ pair[2] \in AminoAcidKeys(pair[1])
       /\ EntryOf(pair[1], pair[2]) # NewEntry(NoneStr)}

C26_TotalVariants ==
    Returned =>
      /\ Metadata.total_variants = Cardinality(PairsWithCell)
      /\ Cardinality(DictKeys(Lookup)) = Cardinality(PairsWithCell)
      /\ Cardinality(PopulatedEntries) = Cardinality(PairsWithCell)

\* one pair measured at two dose levels
C26_Witness ==
    /\ Returned
    /\ Metadata.total_variants = 1
    /\ Len(grouped_stats) = 2
    /\ grouped_stats[1].dose_level # grouped_stats[2].dose_level

\* ---------------------------------------------------------------------
\* C27: every variant_lookup entry mirrors the returned matrix: it is filed
\* under its (position, amino acid), its low, medium and high value are the
\* values of the matrix entry at those dose levels, its ref_aa is the matrix
\* entry's, and its count is the matrix entry's low-dose count, 0 when the
\* low-dose value is null.
C27_LookupMirrorsMatrix ==
    Returned =>
      \A key \in DictKeys(Lookup) :
        LET entry == DictGet(Lookup, key)
            ps == ToString(entry.position)
            aa == entry.alt_aa
        IN  /\ key = KeyFor(entry.position, aa)
            /\ ps \in PositionKeys /\ aa \in AminoAcidKeys(ps)
            /\ entry.low_value = CellOf(ps, aa, "low").value
            /\ entry.medium_value = CellOf(ps, aa, "medium").value
            /\ entry.high_value = CellOf(ps, aa, "high").value
            /\ entry.ref_aa = EntryOf(ps, aa).ref_aa
            /\ entry.count = CellOf(ps, aa, "low").count
            /\ CellOf(ps, aa, "low").value = None => entry.count = 0

\* an entry with a low-dose measurement next to one measured at the medium
\* dose only
C27_Witness ==
    /\ Returned
    /\ \E key \in DictKeys(Lookup), other \in DictKeys(Lookup) :
         /\ DictGet(Lookup, key).count = 1
         /\ DictGet(Lookup, key).low_value # None
         /\ DictGet(Lookup, other).low_value = None
         /\ DictGet(Lookup, other).medium_value # None
         /\ DictGet(Lookup, other).count = 0

\* ---------------------------------------------------------------------
\* the call of estimate_ic50 that has returned
GivenDoses == ic50_call.doses
GivenResponses == ic50_call.responses
Points == 1..Len(GivenDoses)

\* the points by ascending dose (and ascending response at equal doses)
PointBefore(i, j) ==
    \/ FLess(GivenDoses[i], GivenDoses[j])
    \/ GivenDoses[i] = GivenDoses[j] /\ ~FLess(GivenResponses[j], GivenResponses[i])

DoseOrder ==
    CHOOSE f \in [Points -> Points] :
      /\ \A i \in Points, j \in Points : f[i] = f[j] => i = j
      /\ \A i \in Points, j \in Points : i < j => PointBefore(f[i], f[j])

\* half of the greatest response
HalfMaximum ==
    LET greatest == CHOOSE r \in Range(GivenResponses) :
                      \A q \in Range(GivenResponses) : Leq(q, r)
    IN  FDivInt(greatest, 2)

Between(lo, v, hi) == Leq(lo, v) /\ Leq(v, hi)

\* the responses of the adjacent points x[i], x[i + 1] and y[i], y[i + 1]
\* bracket the response half
Brackets(y, half, i) ==
    Between(y[i], half, y[i + 1]) \/ Between(y[i + 1], half, y[i])

\* v lies on the line through the points i and i + 1 at the height half
OnLine(v, x, y, half, i) ==
    FMul(FSub(v, x[i]), FSub(y[i + 1], y[i])) = FMul(FSub(half, y[i]), FSub(x[i + 1], x[i]))

\* C28: estimate_ic50 returns None for fewer than two dose points; for two
\* or more points with non-negative doses it returns a non-negative value
\* between the smallest and the largest dose: the linear interpolation over
\* the first dose-sorted adjacent pair whose responses bracket half the
\* maximum response, the lower dose of that pair when its responses are
\* equal, and the middle dose when no pair brackets.
C28_EstimateIC50 ==
    ic50_pc = "returned" =>
      /\ Len(GivenDoses) < 2 => ic50_result = None
      /\ (Len(GivenDoses) >= 2 /\ \A i \in Points : Leq(Num(0), GivenDoses[i])) =>
           LET order == DoseOrder
               x == [i \in Points |-> GivenDoses[order[i]]]
               y == [i \in Points |-> GivenResponses[order[i]]]
               half == HalfMaximum
               bracketing == {i \in 1..(Len(GivenDoses) - 1) : Brackets(y, half, i)}
               first == CHOOSE i \in bracketing : \A j \in bracketing : i <= j
           IN  /\ Leq(Num(0), ic50_result)
               /\ Leq(x[1], ic50_result)
               /\ Leq(ic50_result, x[Len(GivenDoses)])
               /\ IF bracketing # {}
                  THEN IF y[first] = y[first + 1]
                       THEN ic50_result = x[first]
                       ELSE OnLine(ic50_result, x, y, half, first)
                  ELSE ic50_result = x[(Len(GivenDoses) \div 2) + 1]

\* three points given out of dose order, interpolated strictly inside a pair
C28_Witness ==
    /\ ic50_pc = "returned"
    /\ Len(GivenDoses) = 3
    /\ FLess(GivenDoses[2], GivenDoses[1])
    /\ \A i \in Points : Leq(Num(0), GivenDoses[i]) /\ ic50_result # GivenDoses[i]
    /\ IsNum(ic50_result)

\* ---------------------------------------------------------------------
\* the dose-response records stored by process_k562_data_v2
StoredRecords ==
    UNION {Range(DictGet(variants, key).ic50_values) : key \in DictKeys(variants)}

ScreenRows == 1..Len(k562_df)
ScreenedDrugs == {k562_df[i].Drug : i \in ScreenRows}
ScreenedConcentrations(drug) ==
    {k562_df[i].conc : i \in {j \in ScreenRows : k562_df[j].Drug = drug}}

\* the responses recorded for one drug, concentration and replicate
ResponsesOf(drug, conc, rep) ==
    {k562_df[i].netgr_obs : i \in {j \in ScreenRows : /\ k562_df[j].Drug = drug
                                                      /\ k562_df[j].conc = conc
                                                      /\ k562_df[j].rep = rep}}

\* the concentrations of a drug that have replicate 1 or replicate 2
WithReplicate(drug) ==
    {c \in ScreenedConcentrations(drug) :
       ResponsesOf(drug, c, 1) \cup ResponsesOf(drug, c, 2) # {}}

\* C29: in every stored dose-response record the four lists have the same
\* length, the doses are strictly ascending and are exactly the
\* concentrations that have replicate 1 or 2 (a concentration with neither
\* is in none of the lists), the i-th responses are those of the i-th dose,
\* a concentration with only one of the replicates 1 and 2 has that
\* replicate's value in both lists, and the i-th average is the mean of the
\* two i-th responses; when the run returns every drug with such a
\* concentration has its record.
C29_DoseResponseLists ==
    /\ \A rec \in StoredRecords :
         LET data == rec.dose_response_data
             n == Len(data.doses)
         IN  /\ Len(data.responses_rep1) = n
             /\ Len(data.responses_rep2) = n
             /\ Len(data.avg_responses) = n
             /\ \A i \in 1..n, j \in 1..n : i < j => FLess(data.doses[i], data.doses[j])
             /\ Range(data.doses) = {Num(c) : c \in WithReplicate(rec.drug)}
             /\ \A i \in 1..n : \A c \in WithReplicate(rec.drug) :
                  data.doses[i] = Num(c) =>
                    LET first == ResponsesOf(rec.drug, c, 1)
                        second == ResponsesOf(rec.drug, c, 2)
                    IN  /\ first # {} => data.responses_rep1[i] \in first
                        /\ second # {} => data.responses_rep2[i] \in second
                        /\ (first = {} \/ second = {})
                             => data.responses_rep1[i] = data.responses_rep2[i]
                        /\ FMul(Num(2), data.avg_responses[i])
                             = FAdd(data.responses_rep1[i], data.responses_rep2[i])
    /\ k562_pc = "returned" =>
         \A drug \in ScreenedDrugs :
           WithReplicate(drug) # {} => \E rec \in StoredRecords : rec.drug = drug

\* a record of one dose for a drug screened at two concentrations, one of
\* them with replicate 3 only
C29_Witness ==
    /\ k562_pc = "returned"
    /\ \E rec \in StoredRecords :
         /\ Len(rec.dose_response_data.doses) = 1
         /\ Cardinality(ScreenedConcentrations(rec.drug)) = 2
         /\ ResponsesOf(rec.drug, rec.dose_response_data.doses[1].n, 1) = {}

\* ---------------------------------------------------------------------
\* the sources of the search index and what they hold
CsvIsTable == csv_file.state = "table"
GenesInCsv ==
    IF CsvIsTable /\ "Gene" \in csv_file.columns
    THEN {csv_file.rows[i].Gene : i \in 1..Len(csv_file.rows)} \ {NaN} ELSE {}
DrugsInCsv ==
    IF CsvIsTable /\ "Drug" \in csv_file.columns
    THEN {csv_file.rows[i].Drug : i \in 1..Len(csv_file.rows)} \ {NaN} ELSE {}
DrugsInFiles ==
    IF ~variants_dir.exists THEN {}
    ELSE UNION {UNION {Range(variants_dir.dirs[g].files[f].drugs_tested) :
                         f \in {k \in 1..Len(variants_dir.dirs[g].files) :
                                  variants_dir.dirs[g].files[k].readable}} :
                  g \in 1..Len(variants_dir.dirs)}
FellBack == "No CSV data found, falling back to variant files..." \in Range(index_log)
DefaultsAdded == "No drugs found, adding defaults..." \in Range(index_log)

\* C30: the variant files are consulted only when the CSV file yields
\* neither a gene nor a drug, and they are consulted when the CSV file is
\* missing, unreadable or without rows; the default drugs are added only
\* after that decision and only when neither source gave a drug, and they
\* are then the three default drugs; the saved index has at least one drug,
\* and its three totals are the lengths of its genes, drugs and variants
\* lists.
C30_FallbackOrder ==
    /\ FellBack => GenesInCsv = {} /\ DrugsInCsv = {}
    /\ (index_pc \in {"sourced", "defaulted", "saved"}
          /\ (~CsvIsTable \/ csv_file.rows = <<>>)) => FellBack
    /\ DefaultsAdded =>
         /\ index_pc \in {"defaulted", "saved"}
         /\ DrugsInCsv = {}
         /\ FellBack => DrugsInFiles = {}
         /\ DictKeys(drugs) = {"Imatinib", "Dasatinib", "Nilotinib"}
         /\ index_log[Len(index_log)] = "No drugs found, adding defaults..."
    /\ index_pc = "saved" =>
         /\ Len(search_index.drugs) >= 1
         /\ search_index.stats.total_genes = Len(search_index.genes)
         /\ search_index.stats.total_drugs = Len(search_index.drugs)
         /\ search_index.stats.total_variants = Len(search_index.variants)

\* an index saved after both fallbacks: a gene from the variant files, the
\* three default drugs
C30_Witness ==
    /\ index_pc = "saved"
    /\ FellBack /\ DefaultsAdded
    /\ Len(search_index.genes) = 1
    /\ Len(search_index.drugs) = 3
====
